---- MODULE Spec2Model ----
(***************************************************************************)
(* Model of the notebook nvidia-rag.ipynb: multi-query expansion,          *)
(* step-back question generation, rate-limited web search collection and   *)
(* refine summarization.                                                   *)
(*                                                                         *)
(* A text is a sequence of one-character strings.  The language model and  *)
(* the search provider are external: each response is a nondeterministic   *)
(* choice from a small set, and each call may fail.                        *)
(***************************************************************************)
EXTENDS Integers, Sequences, FiniteSets, TLC

\* ------------------------------------------------------------------ bounds
\* longest expansion response drawn in the pipeline specification
MaxRespLen == 3
\* longest response text drawn when the parser alone is exercised
MaxTextLen == 7
\* longest document sequence drawn when refine alone is exercised
MaxDocs == 3
\* longest time one search request takes
MaxLatency == 1
\* most lines the stubbed model returns for the expansion prompt
MaxVariants == 3

\* ------------------------------------------------------- program constants
\* time.sleep(5)
Delay == 5

\* --------------------------------------------------------------- alphabets
NL == "\n"
SP == " "
Chars == {"a", SP, NL}
Whitespace == {SP, NL}

Texts(n) == UNION {[1..k -> Chars] : k \in 0..n}

\* raw texts the model may return for one step-back call (StrOutputParser)
StepBackTexts == {<<"a">>, <<"b">>}
\* texts the search provider may return for one request
SearchTexts == {"t1", "t2"}
\* texts the model may return for one call of the refine chain
Summaries == {"s1", "s2"}

NoText == <<>>
NoSummary == "none"
NoCall == [summary |-> NoSummary, doc |-> "none"]

\* ------------------------------------------------- LineListOutputParser.parse
RECURSIVE lstrip(_)
lstrip(s) ==
    IF s # <<>> /\ Head(s) \in Whitespace THEN lstrip(Tail(s)) ELSE s

RECURSIVE rstrip(_)
rstrip(s) ==
    IF s # <<>> /\ s[Len(s)] \in Whitespace
    THEN rstrip(SubSeq(s, 1, Len(s) - 1))
    ELSE s

\* str.strip(): leading and trailing whitespace of the whole text removed
strip(s) == rstrip(lstrip(s))

\* str.split("\n"): every separator cuts, empty pieces are kept, and the
\* result always has at least one element
RECURSIVE split(_)
split(s) ==
    IF \E k \in 1..Len(s) : s[k] = NL
    THEN LET k == CHOOSE j \in 1..Len(s) :
                      s[j] = NL /\ \A m \in 1..(j - 1) : s[m] # NL
         IN  <<SubSeq(s, 1, k - 1)>> \o split(SubSeq(s, k + 1, Len(s)))
    ELSE <<s>>

\* lines = text.strip().split("\n")
parse(text) == split(strip(text))

\* Document(page_content=...)
Document(text) == [page_content |-> text]

\* ------------------------------------------------------------------- state
VARIABLES
    pc,                \* position of the notebook's execution
    error,             \* the exception that ended the run, or "none"
    responseText,      \* raw model response to the expansion prompt
    expandCalls,       \* expansion prompts sent to the model
    lines,             \* res.lines
    sb,                \* the calls of question_gen.batch, by input index
    completed,         \* input indices in the order their calls completed
    reordered,         \* the last batch's calls completed out of input order
    stepback_answers,
    queries_to_search,
    search_results,
    queried,           \* queries handed to search.run, in request order
    returned,          \* texts search.run returned, in request order
    now,               \* the clock
    collectStart,      \* clock when the collection loop began
    lastIssue,         \* clock when the last search request was issued
    lastDone,          \* clock when the last search request completed
    delays,            \* time.sleep calls performed
    summary,           \* running summary of the refine chain
    todo,              \* documents the refine loop has yet to process
    inflight,          \* inputs of the refine model call in flight
    consumed,          \* document contents handed to refine model calls
    refineCalls,       \* model calls issued by the refine chain
    lastResponse,      \* response of the last completed refine model call
    output_text        \* res['output_text']

vars == <<pc, error, responseText, expandCalls, lines, sb, completed,
          reordered,
          stepback_answers, queries_to_search, search_results, queried,
          returned, now, collectStart, lastIssue, lastDone,
          delays, summary, todo, inflight, consumed, refineCalls,
          lastResponse, output_text>>

expandVars == <<responseText, expandCalls, lines>>
batchVars == <<sb, completed, reordered, stepback_answers>>
collectVars == <<search_results, queried, returned>>
clockVars == <<now, collectStart, lastIssue, lastDone, delays>>
refineVars == <<summary, todo, inflight, consumed, refineCalls,
                lastResponse, output_text>>

Init ==
    /\ pc = "start"
    /\ error = "none"
    /\ responseText = NoText
    /\ expandCalls = 0
    /\ lines = <<>>
    /\ sb = <<>>
    /\ completed = <<>>
    /\ reordered = FALSE
    /\ stepback_answers = <<>>
    /\ queries_to_search = <<>>
    /\ search_results = <<>>
    /\ queried = <<>>
    /\ returned = <<>>
    /\ now = 0
    /\ collectStart = 0
    /\ lastIssue = 0
    /\ lastDone = 0
    /\ delays = 0
    /\ summary = NoSummary
    /\ todo = <<>>
    /\ inflight = NoCall
    /\ consumed = <<>>
    /\ refineCalls = 0
    /\ lastResponse = NoSummary
    /\ output_text = NoSummary

\* --------------------------------------------------------- query expansion
\* multiquery_chain.invoke: the prompt is sent to the model
ExpandCall ==
    /\ pc = "start"
    /\ pc' = "expanding"
    /\ expandCalls' = expandCalls + 1
    /\ UNCHANGED <<error, responseText, lines, queries_to_search>>
    /\ UNCHANGED <<batchVars, collectVars, clockVars, refineVars>>

\* the model answers with text; LineListOutputParser turns it into res.lines
ExpandReturnWith(text) ==
    /\ pc = "expanding"
    /\ responseText' = text
    /\ lines' = parse(text)
    /\ pc' = "expanded"
    /\ UNCHANGED <<error, expandCalls, queries_to_search>>
    /\ UNCHANGED <<batchVars, collectVars, clockVars, refineVars>>

ExpandReturn == \E text \in Texts(MaxRespLen) : ExpandReturnWith(text)

\* the model call raises; nothing catches it
ExpandFail ==
    /\ pc = "expanding"
    /\ pc' = "failed"
    /\ error' = "ModelUnavailable"
    /\ UNCHANGED <<expandVars, queries_to_search>>
    /\ UNCHANGED <<batchVars, collectVars, clockVars, refineVars>>

\* ------------------------------------------------------ step-back questions
\* question_gen.batch(res.lines): one call is submitted per input, each bound
\* to its own input
BatchSubmit ==
    /\ pc = "expanded"
    /\ sb' = [i \in 1..Len(lines) |->
                [st |-> "pending", q |-> lines[i], out |-> NoText]]
    /\ pc' = "stepback"
    /\ UNCHANGED <<error, expandVars, completed, reordered,
                   stepback_answers, queries_to_search>>
    /\ UNCHANGED <<collectVars, clockVars, refineVars>>

\* a worker picks up call i and sends its prompt to the model
SbStart(i) ==
    /\ pc = "stepback"
    /\ sb[i].st = "pending"
    /\ sb' = [sb EXCEPT ![i].st = "running"]
    /\ UNCHANGED <<pc, error, expandVars, completed, reordered,
                   stepback_answers, queries_to_search>>
    /\ UNCHANGED <<collectVars, clockVars, refineVars>>

\* the model answers call i; the raw text is the step-back question
SbReturn(i, r) ==
    /\ pc = "stepback"
    /\ sb[i].st = "running"
    /\ sb' = [sb EXCEPT ![i].st = "done", ![i].out = r]
    /\ completed' = Append(completed, i)
    /\ UNCHANGED <<pc, error, expandVars, reordered, stepback_answers,
                   queries_to_search>>
    /\ UNCHANGED <<collectVars, clockVars, refineVars>>

\* the model call of input i raises
SbFail(i) ==
    /\ pc = "stepback"
    /\ sb[i].st = "running"
    /\ sb' = [sb EXCEPT ![i].st = "failed"]
    /\ UNCHANGED <<pc, error, expandVars, completed, reordered,
                   stepback_answers, queries_to_search>>
    /\ UNCHANGED <<collectVars, clockVars, refineVars>>

\* results reassembled in completion order: what batch does not do
AssembleByCompletion(calls, order) ==
    [k \in 1..Len(order) |-> calls[order[k]].out]

\* the batch's result list: the output of call i at position i
Assemble(calls, order) ==
    [i \in 1..Len(calls) |-> calls[i].out]

\* every call has completed: batch returns the list and its executor, with
\* the order of completion, is gone
BatchReturn ==
    /\ pc = "stepback"
    /\ \A i \in DOMAIN sb : sb[i].st = "done"
    /\ stepback_answers' = Assemble(sb, completed)
    /\ reordered' = \E j, k \in 1..Len(completed) :
                        j < k /\ completed[j] > completed[k]
    /\ completed' = <<>>
    /\ pc' = "batched"
    /\ UNCHANGED <<error, expandVars, sb, queries_to_search>>
    /\ UNCHANGED <<collectVars, clockVars, refineVars>>

\* the exception leaves batch while other calls still run: what batch does
\* not do
BatchRaiseEarly ==
    /\ pc = "stepback"
    /\ \E i \in DOMAIN sb : sb[i].st = "failed"
    /\ pc' = "failed"
    /\ error' = "ModelUnavailable"
    /\ UNCHANGED <<expandVars, batchVars, queries_to_search>>
    /\ UNCHANGED <<collectVars, clockVars, refineVars>>

\* a call raised: once no call is running the exception leaves batch; calls
\* not yet picked up are cancelled
BatchRaise ==
    /\ pc = "stepback"
    /\ \E i \in DOMAIN sb : sb[i].st = "failed"
    /\ \A i \in DOMAIN sb : sb[i].st # "running"
    /\ pc' = "failed"
    /\ error' = "ModelUnavailable"
    /\ UNCHANGED <<expandVars, batchVars, queries_to_search>>
    /\ UNCHANGED <<collectVars, clockVars, refineVars>>

\* ---------------------------------------------------------- query combining
\* step-back questions first: what the notebook does not do
CombineReversed(a, b) == b \o a

\* the step-back questions alone: what the notebook does not do
CombineStepBacksOnly(a, b) == b

\* res.lines + stepback_answers
Combine(a, b) == a \o b

\* queries_to_search = res.lines + stepback_answers
CombineQueries ==
    /\ pc = "batched"
    /\ queries_to_search' = Combine(lines, stepback_answers)
    /\ pc' = "combined"
    /\ UNCHANGED <<error, expandVars>>
    /\ UNCHANGED <<batchVars, collectVars, clockVars, refineVars>>

\* ------------------------------------------------------ web search collector
\* search_results = []; the for loop over queries_to_search begins
CollectBegin ==
    /\ pc = "combined"
    /\ search_results' = <<>>
    /\ collectStart' = now
    /\ pc' = "loop"
    /\ UNCHANGED <<error, expandVars, batchVars, queries_to_search, queried,
                   returned, now, lastIssue, lastDone, delays>>
    /\ UNCHANGED refineVars

\* the loop takes the next query and calls search.run(query)
SearchIssue ==
    /\ pc = "loop"
    /\ Len(queried) < Len(queries_to_search)
    /\ queried' = Append(queried, queries_to_search[Len(queried) + 1])
    /\ lastIssue' = now
    /\ pc' = "searching"
    /\ UNCHANGED <<error, expandVars, batchVars, queries_to_search,
                   search_results, returned, now, collectStart, lastDone,
                   delays>>
    /\ UNCHANGED refineVars

\* the result kept only when it differs from the previous one: what the
\* loop does not do
AppendResultDistinct(results, text) ==
    IF results # <<>> /\ results[Len(results)] = Document(text)
    THEN results
    ELSE Append(results, Document(text))

\* the result put at the front of the list: what the loop does not do
AppendResultFront(results, text) == <<Document(text)>> \o results

\* search_results.append(Document(page_content=search.run(query)))
AppendResult(results, text) == Append(results, Document(text))

\* search.run returns text after d time units; it is wrapped and appended
SearchReturn(text, d) ==
    /\ pc = "searching"
    /\ returned' = Append(returned, text)
    /\ search_results' = AppendResult(search_results, text)
    /\ now' = now + d
    /\ lastDone' = now + d
    /\ pc' = "sleeping"
    /\ UNCHANGED <<error, expandVars, batchVars, queries_to_search, queried,
                   collectStart, lastIssue, delays>>
    /\ UNCHANGED refineVars

\* the error noted and the loop carried on with the next query: what the
\* loop does not do
SearchFailSkips ==
    /\ pc = "searching"
    /\ pc' = "loop"
    /\ error' = "SearchUnavailable"
    /\ UNCHANGED <<expandVars, batchVars, queries_to_search>>
    /\ UNCHANGED <<collectVars, clockVars, refineVars>>

\* search.run raises; nothing catches it
SearchFail ==
    /\ pc = "searching"
    /\ pc' = "failed"
    /\ error' = "SearchUnavailable"
    /\ UNCHANGED <<expandVars, batchVars, queries_to_search>>
    /\ UNCHANGED <<collectVars, clockVars, refineVars>>

\* the delay left out: what the loop does not do
AfterSleepSkipped(t) == t

\* time.sleep(5): the clock when the sleep ends, at the earliest
AfterSleep(t) == t + Delay

\* the delay kept between requests only, none after the last: what the loop
\* does not do
SleepBetween ==
    /\ pc = "sleeping"
    /\ now' = IF Len(queried) < Len(queries_to_search)
              THEN AfterSleep(now) ELSE now
    /\ delays' = IF Len(queried) < Len(queries_to_search)
                 THEN delays + 1 ELSE delays
    /\ pc' = "loop"
    /\ UNCHANGED <<error, expandVars, batchVars, queries_to_search,
                   collectStart, lastIssue, lastDone>>
    /\ UNCHANGED <<collectVars, refineVars>>

\* time.sleep(5), then the loop goes round
Sleep ==
    /\ pc = "sleeping"
    /\ now' = AfterSleep(now)
    /\ delays' = delays + 1
    /\ pc' = "loop"
    /\ UNCHANGED <<error, expandVars, batchVars, queries_to_search,
                   collectStart, lastIssue, lastDone>>
    /\ UNCHANGED <<collectVars, refineVars>>

\* queries_to_search is exhausted: the loop ends
CollectEnd ==
    /\ pc = "loop"
    /\ Len(queried) = Len(queries_to_search)
    /\ pc' = "collected"
    /\ UNCHANGED <<error, expandVars, batchVars, queries_to_search>>
    /\ UNCHANGED <<collectVars, clockVars, refineVars>>

\* ---------------------------------------------------------- refine summarizer
\* The chain of load_summarize_chain(model, chain_type="refine"): an answer
\* from the first document, then one refinement per further document.

\* an empty summary returned for no documents: what the chain does not do
RefineEmptyReturns ==
    /\ pc = "collected"
    /\ search_results = <<>>
    /\ pc' = "done"
    /\ UNCHANGED <<error, expandVars, batchVars, queries_to_search>>
    /\ UNCHANGED <<collectVars, clockVars, refineVars>>

\* chain.invoke([]): taking the first document of an empty list raises
\* (Python's IndexError; the error kind EmptyInput) before any model call
RefineEmpty ==
    /\ pc = "collected"
    /\ search_results = <<>>
    /\ pc' = "failed"
    /\ error' = "EmptyInput"
    /\ UNCHANGED <<expandVars, batchVars, queries_to_search>>
    /\ UNCHANGED <<collectVars, clockVars, refineVars>>

\* the loop over every document, the first included: what the chain does
\* not do
RestAll(docs) == docs

\* the documents after the first, docs[1:]
Rest(docs) == Tail(docs)

\* the initial call: the model is prompted with the first document alone
RefineSeed ==
    /\ pc = "collected"
    /\ search_results # <<>>
    /\ inflight' = [summary |-> NoSummary,
                    doc |-> search_results[1].page_content]
    /\ consumed' = Append(consumed, search_results[1].page_content)
    /\ refineCalls' = refineCalls + 1
    /\ todo' = Rest(search_results)
    /\ pc' = "refine_call"
    /\ UNCHANGED <<error, expandVars, batchVars, queries_to_search, summary,
                   lastResponse, output_text>>
    /\ UNCHANGED <<collectVars, clockVars>>

\* the response dropped and the old summary kept: what the chain does not do
NextSummaryKept(old, r) == old

\* res = ...predict(...): the response becomes the running summary
NextSummary(old, r) == r

\* the model answers the call in flight
RefineReturn(r) ==
    /\ pc = "refine_call"
    /\ summary' = NextSummary(summary, r)
    /\ lastResponse' = r
    /\ inflight' = NoCall
    /\ pc' = "refine_loop"
    /\ UNCHANGED <<error, expandVars, batchVars, queries_to_search, todo,
                   consumed, refineCalls, output_text>>
    /\ UNCHANGED <<collectVars, clockVars>>

\* the error noted and the summary so far returned: what the chain does
\* not do
RefineFailReturnsPartial ==
    /\ pc = "refine_call"
    /\ pc' = "done"
    /\ error' = "ModelUnavailable"
    /\ output_text' = summary
    /\ UNCHANGED <<expandVars, batchVars, queries_to_search, summary, todo,
                   inflight, consumed, refineCalls, lastResponse>>
    /\ UNCHANGED <<collectVars, clockVars>>

\* the model call in flight raises; nothing catches it
RefineFail ==
    /\ pc = "refine_call"
    /\ pc' = "failed"
    /\ error' = "ModelUnavailable"
    /\ UNCHANGED <<expandVars, batchVars, queries_to_search>>
    /\ UNCHANGED <<collectVars, clockVars, refineVars>>

\* the next document: the model is prompted with the running summary and
\* that document
RefineStep ==
    /\ pc = "refine_loop"
    /\ todo # <<>>
    /\ inflight' = [summary |-> summary, doc |-> Head(todo).page_content]
    /\ consumed' = Append(consumed, Head(todo).page_content)
    /\ refineCalls' = refineCalls + 1
    /\ todo' = Tail(todo)
    /\ pc' = "refine_call"
    /\ UNCHANGED <<error, expandVars, batchVars, queries_to_search, summary,
                   lastResponse, output_text>>
    /\ UNCHANGED <<collectVars, clockVars>>

\* no document is left: the running summary is the chain's output_text
RefineFinish ==
    /\ pc = "refine_loop"
    /\ todo = <<>>
    /\ output_text' = summary
    /\ pc' = "done"
    /\ UNCHANGED <<error, expandVars, batchVars, queries_to_search, summary,
                   todo, inflight, consumed, refineCalls, lastResponse>>
    /\ UNCHANGED <<collectVars, clockVars>>

\* ----------------------------------------------------------- specifications
Refine ==
    \/ RefineEmpty
    \/ RefineSeed
    \/ \E r \in Summaries : RefineReturn(r)
    \/ RefineFail
    \/ RefineStep
    \/ RefineFinish

\* RefineEmpty is no disjunct of Next: parse never returns an empty list, so
\* the notebook never hands the chain an empty search_results
Next ==
    \/ ExpandCall
    \/ ExpandReturn
    \/ ExpandFail
    \/ BatchSubmit
    \/ \E i \in DOMAIN sb : SbStart(i)
    \/ \E i \in DOMAIN sb : \E r \in StepBackTexts : SbReturn(i, r)
    \/ \E i \in DOMAIN sb : SbFail(i)
    \/ BatchReturn
    \/ BatchRaise
    \/ CombineQueries
    \/ CollectBegin
    \/ SearchIssue
    \/ \E text \in SearchTexts : \E d \in 0..MaxLatency : SearchReturn(text, d)
    \/ SearchFail
    \/ Sleep
    \/ CollectEnd
    \/ RefineSeed
    \/ \E r \in Summaries : RefineReturn(r)
    \/ RefineFail
    \/ RefineStep
    \/ RefineFinish

\* the whole notebook, run once from the top
Spec == Init /\ [][Next]_vars

\* the parser alone, on every response text up to MaxTextLen
NextParse ==
    \/ ExpandCall
    \/ \E text \in Texts(MaxTextLen) : ExpandReturnWith(text)

SpecParse == Init /\ [][NextParse]_vars

\* the refine chain alone, on every document sequence up to MaxDocs
InitRefine ==
    /\ pc = "collected"
    /\ search_results \in
         UNION {[1..k -> {Document(t) : t \in SearchTexts}] : k \in 0..MaxDocs}
    /\ error = "none"
    /\ responseText = NoText
    /\ expandCalls = 0
    /\ lines = <<>>
    /\ sb = <<>>
    /\ completed = <<>>
    /\ reordered = FALSE
    /\ stepback_answers = <<>>
    /\ queries_to_search = <<>>
    /\ queried = <<>>
    /\ returned = <<>>
    /\ now = 0
    /\ collectStart = 0
    /\ lastIssue = 0
    /\ lastDone = 0
    /\ delays = 0
    /\ summary = NoSummary
    /\ todo = <<>>
    /\ inflight = NoCall
    /\ consumed = <<>>
    /\ refineCalls = 0
    /\ lastResponse = NoSummary
    /\ output_text = NoSummary

SpecRefine == InitRefine /\ [][Refine]_vars

\* the response of a stubbed model: k fixed lines
RECURSIVE StubLines(_)
StubLines(k) ==
    IF k <= 1 THEN <<"a">> ELSE StubLines(k - 1) \o <<NL, "a">>

\* the notebook run against stubs: every external call succeeds, the model
\* returns 1..MaxVariants fixed lines for the expansion prompt and the search
\* provider answers at once
NextStubbed ==
    \/ ExpandCall
    \/ \E k \in 1..MaxVariants : ExpandReturnWith(StubLines(k))
    \/ BatchSubmit
    \/ \E i \in DOMAIN sb : SbStart(i)
    \/ \E i \in DOMAIN sb : \E r \in StepBackTexts : SbReturn(i, r)
    \/ BatchReturn
    \/ CombineQueries
    \/ CollectBegin
    \/ SearchIssue
    \/ \E text \in SearchTexts : SearchReturn(text, 0)
    \/ Sleep
    \/ CollectEnd
    \/ RefineSeed
    \/ \E r \in Summaries : RefineReturn(r)
    \/ RefineStep
    \/ RefineFinish

SpecStubbed == Init /\ [][NextStubbed]_vars

\* ------------------------------------------------------------------ helpers
IsPrefix(a, b) == Len(a) <= Len(b) /\ a = SubSeq(b, 1, Len(a))

Contents(docs) == [j \in 1..Len(docs) |-> docs[j].page_content]

\* the batch has returned its list
AfterBatch ==
    pc \in {"batched", "combined", "loop", "searching", "sleeping",
            "collected", "refine_call", "refine_loop", "done"}

\* queries_to_search has been built
AfterCombine == AfterBatch /\ pc # "batched"

\* the collection loop has run to its end
AfterCollect == pc \in {"collected", "refine_call", "refine_loop", "done"}

\* the non-blank lines of a text, each trimmed
WellFormedLines(text) ==
    LET raw == split(text)
        keep == SelectSeq(raw, LAMBDA l : strip(l) # <<>>)
    IN  [i \in 1..Len(keep) |-> strip(keep[i])]

\* ------------------------------------------------------------------- claims

\* C1: refine over a non-empty document sequence is a strict left-to-right
\* fold.  The first model call gets the first document and no summary; call
\* number i gets the running summary and document i; every response replaces
\* the running summary; the documents handed to the calls are the input in
\* order, one call each; the value returned is the last response and exactly
\* Len(search_results) calls were made.
RefineIsLeftFold ==
    /\ refineCalls = Len(consumed)
    /\ IsPrefix(consumed, Contents(search_results))
    /\ pc \in {"refine_call", "refine_loop", "done"} =>
         todo = SubSeq(search_results, refineCalls + 1, Len(search_results))
    /\ pc = "refine_call" =>
         /\ refineCalls >= 1
         /\ inflight.doc = search_results[refineCalls].page_content
         /\ inflight.summary =
              IF refineCalls = 1 THEN NoSummary ELSE lastResponse
    /\ pc \in {"refine_loop", "done"} => summary = lastResponse
    /\ pc = "done" =>
         /\ refineCalls = Len(search_results)
         /\ consumed = Contents(search_results)
         /\ output_text = lastResponse
         /\ output_text \in Summaries

\* C1 witness: a fold over three documents, not all alike, has returned
RefineFoldDone ==
    /\ pc = "done"
    /\ Len(search_results) = 3
    /\ search_results[1] # search_results[2]
    /\ refineCalls = 3

\* C2: the documents reach the refine chain in the order collected: the
\* results of the query variants first, in expansion order, then the results
\* of the step-back questions, in batch output order; nothing between
\* expansion and refine reorders or removes queries or documents.
DocumentOrder ==
    /\ AfterCombine =>
         /\ Len(queries_to_search) = Len(lines) + Len(stepback_answers)
         /\ \A j \in 1..Len(queries_to_search) :
              queries_to_search[j] =
                IF j <= Len(lines) THEN lines[j]
                ELSE stepback_answers[j - Len(lines)]
         /\ IsPrefix(queried, queries_to_search)
    /\ Contents(search_results) = returned
    /\ Len(returned) <= Len(queried)
    /\ IsPrefix(consumed, Contents(search_results))
    /\ pc = "done" => consumed = returned /\ Len(returned) = Len(queried)

\* C2 witness: a run with two variants and two distinct step-back questions,
\* the first unlike its variant, has been summarized from documents that
\* differ
DocumentOrderDone ==
    /\ pc = "done"
    /\ Len(lines) = 2
    /\ stepback_answers[1] # stepback_answers[2]
    /\ lines[1] # stepback_answers[1]
    /\ returned[1] # returned[3]

\* C3: collect issues exactly one search request per query, duplicates
\* included, and returns one Document per query, Document j holding the
\* full text returned for query j, in input order.
CollectContract ==
    AfterCollect =>
        /\ queried = queries_to_search
        /\ Len(returned) = Len(queries_to_search)
        /\ Len(search_results) = Len(queries_to_search)
        /\ \A j \in 1..Len(search_results) :
             search_results[j] = Document(returned[j])

\* C3 witness: a collection over queries with a duplicate, where the
\* provider returned the same text twice in a row, has ended
CollectWithDuplicates ==
    /\ pc = "collected"
    /\ \E j, k \in 1..Len(queries_to_search) :
         j < k /\ queries_to_search[j] = queries_to_search[k]
    /\ returned[1] = returned[2]

\* C4: search requests are serialized and rate-limited.  Every search
\* request but the first is issued at least Delay after the previous request
\* completed, hence at least Delay after the previous request was issued,
\* and collecting k queries takes at least (k - 1) * Delay.
RateLimited ==
    /\ [][(pc = "loop" /\ pc' = "searching" /\ queried # <<>>) =>
            (now' >= lastDone + Delay /\ now' >= lastIssue + Delay)]_vars
    /\ [](AfterCollect =>
            now - collectStart >= (Len(queries_to_search) - 1) * Delay)

\* C4 witness: a later request is in flight, issued exactly Delay after the
\* previous one completed
SecondRequestIssued ==
    /\ pc = "searching"
    /\ Len(queried) >= 2
    /\ now = lastDone + Delay
    /\ lastIssue = now

\* C5: the batch over k questions returns k step-back questions, output i
\* being the response to the call made for input i, whatever the order in
\* which the calls complete; each call is bound to its own input only.
StepBackOrder ==
    /\ pc = "stepback" => \A i \in DOMAIN sb : sb[i].q = lines[i]
    /\ AfterBatch =>
         /\ Len(stepback_answers) = Len(lines)
         /\ DOMAIN sb = 1..Len(lines)
         /\ \A i \in 1..Len(lines) :
              /\ sb[i].st = "done"
              /\ sb[i].q = lines[i]
              /\ stepback_answers[i] = sb[i].out

\* C5 witness: the batch has returned after its calls completed out of
\* input order with different responses
BatchReturnedReordered ==
    /\ pc = "batched"
    /\ reordered
    /\ stepback_answers[1] # stepback_answers[2]

\* C6: every element of the parse result is a non-empty string with no
\* leading or trailing whitespace and no newline; blank and whitespace-only
\* lines never become query variants.
VariantsWellFormed ==
    pc = "expanded" =>
        \A i \in 1..Len(lines) :
            /\ lines[i] # <<>>
            /\ strip(lines[i]) = lines[i]
            /\ \A k \in 1..Len(lines[i]) : lines[i][k] # NL

\* C7: an empty or whitespace-only response yields an empty sequence of
\* query variants.
EmptyResponseNoVariants ==
    (pc = "expanded" /\ strip(responseText) = <<>>) => lines = <<>>

\* C8: the expansion prompt is sent once and the result has one variant per
\* well-formed line of the response, in response order, whatever their
\* number.
VariantPerWellFormedLine ==
    pc = "expanded" =>
        /\ expandCalls = 1
        /\ Len(lines) = Len(WellFormedLines(responseText))
        /\ \A i \in 1..Len(lines) :
             strip(lines[i]) = WellFormedLines(responseText)[i]

RefineSingleDocument ==
    Len(search_results) = 1 =>
        /\ refineCalls <= 1
        /\ pc = "refine_call" => inflight =
             [summary |-> NoSummary, doc |-> search_results[1].page_content]
        /\ pc = "done" =>
             /\ refineCalls = 1
             /\ consumed = <<search_results[1].page_content>>
             /\ output_text = lastResponse
             /\ output_text \in Summaries

\* C10 witness: refine over one document has returned
RefineSingleDone ==
    /\ Len(search_results) = 1
    /\ pc = "done"
    /\ refineCalls = 1

\* C11: a failed model call inside refine, the first call or a later one,
\* aborts the whole operation with that error: the run has stopped for good,
\* the documents not yet handed to a call never are, no further call is
\* made and no summary is returned.
RefineAborts ==
    /\ [](error = "ModelUnavailable" =>
            /\ pc = "failed"
            /\ output_text = NoSummary
            /\ refineCalls = Len(consumed)
            /\ inflight.doc = search_results[refineCalls].page_content
            /\ todo = SubSeq(search_results, refineCalls + 1,
                             Len(search_results)))
    /\ [][error # "none" => UNCHANGED vars]_vars

\* C11 witness: the second of three calls failed, with a running summary
\* in hand and a document left
RefineFailedMidway ==
    /\ pc = "failed"
    /\ error = "ModelUnavailable"
    /\ Len(search_results) = 3
    /\ refineCalls = 2
    /\ summary \in Summaries
    /\ todo # <<>>

\* C12: nothing is retried or skipped.  A failed search request ends the
\* run with that error: the queries requested are the first i queries, once
\* each, the failed one last, and nothing is requested afterwards.  The
\* expansion prompt is sent at most once, and a step-back call that has
\* completed or failed is never sent again.
NoRetryNoSkip ==
    /\ [](error = "SearchUnavailable" =>
            /\ pc = "failed"
            /\ Len(queried) = Len(returned) + 1
            /\ IsPrefix(queried, queries_to_search)
            /\ Len(search_results) = Len(returned))
    /\ [](expandCalls <= 1 /\ (pc = "expanding" => expandCalls = 1))
    /\ [][error # "none" => UNCHANGED vars]_vars
    /\ [][\A i \in DOMAIN sb :
            sb[i].st \in {"done", "failed"} =>
                (i \in DOMAIN sb' /\ sb'[i] = sb[i])]_vars

\* C12 witness: the second of four search requests failed
SecondSearchFailed ==
    /\ error = "SearchUnavailable"
    /\ Len(queries_to_search) = 4
    /\ Len(queried) = 2
    /\ \E i \in DOMAIN sb : sb[i].st = "done"

\* step-back calls whose prompt is with the model
RunningStepBacks == Cardinality({i \in DOMAIN sb : sb[i].st = "running"})

\* external calls, model or search, in flight
InFlight ==
    RunningStepBacks +
    (IF pc \in {"expanding", "searching", "refine_call"} THEN 1 ELSE 0)

\* C13: outside the step-back batch at most one external call is in flight,
\* and the stages run in order: no step-back call exists before expansion
\* has returned, no search request before every step-back call has
\* completed, no refine call before every query has been searched.
SerializedStages ==
    /\ pc # "stepback" => (RunningStepBacks = 0 /\ InFlight <= 1)
    /\ pc \in {"start", "expanding"} =>
         (sb = <<>> /\ queried = <<>> /\ refineCalls = 0)
    /\ sb # <<>> => (expandCalls = 1 /\ DOMAIN sb = 1..Len(lines))
    /\ pc = "stepback" => (queried = <<>> /\ refineCalls = 0)
    /\ queried # <<>> =>
         /\ \A i \in DOMAIN sb : sb[i].st = "done"
         /\ Len(stepback_answers) = Len(lines)
    /\ pc \in {"loop", "searching", "sleeping"} => refineCalls = 0
    /\ refineCalls > 0 =>
         /\ queried = queries_to_search
         /\ Len(returned) = Len(queried)
         /\ delays = Len(queried)

\* C13 witness: the second refine call is in flight, alone, after a batch
\* whose calls overlapped and completed out of order
RefineCallAlone ==
    /\ pc = "refine_call"
    /\ refineCalls = 2
    /\ reordered
    /\ InFlight = 1

\* C14: when expansion yields N variants and every external call succeeds,
\* the run makes N step-back calls and 2N search requests and produces 2N
\* Documents, those of the N variants followed by those of the N step-back
\* questions, and its answer is the response of the last refine model call.
EndToEnd ==
    pc = "done" =>
        LET N == Len(lines) IN
        /\ error = "none"
        /\ DOMAIN sb = 1..N
        /\ \A i \in 1..N : sb[i].st = "done" /\ sb[i].q = lines[i]
        /\ Len(stepback_answers) = N
        /\ Len(queried) = 2 * N
        /\ Len(search_results) = 2 * N
        /\ \A j \in 1..N :
             /\ queried[j] = lines[j]
             /\ queried[N + j] = stepback_answers[j]
        /\ \A j \in 1..(2 * N) : search_results[j] = Document(returned[j])
        /\ refineCalls = 2 * N
        /\ output_text = lastResponse
        /\ output_text \in Summaries

\* C14 witness: three variants, six Documents, and the answer returned
SixDocumentsDone ==
    /\ pc = "done"
    /\ Len(lines) = 3
    /\ Len(search_results) = 6
    /\ refineCalls = 6

\* the collection loop is running, has ended, or was left by a failed request
InCollection ==
    \/ pc \in {"loop", "searching", "sleeping", "collected"}
    \/ error = "SearchUnavailable"

\* C15: while the collection loop runs, and when a search request fails,
\* search_results has one entry per search request that has returned, entry
\* j holding the text returned for queries_to_search[j]; the list only ever
\* grows at its end, one entry at a time, and the loop leaves
\* queries_to_search alone.
CollectionPrefix ==
    /\ [](InCollection =>
            /\ Len(search_results) = Len(returned)
            /\ Len(queried) =
                 Len(returned) +
                 (IF pc = "searching" \/ error = "SearchUnavailable"
                  THEN 1 ELSE 0)
            /\ Len(queried) <= Len(queries_to_search)
            /\ \A j \in 1..Len(queried) : queried[j] = queries_to_search[j]
            /\ \A j \in 1..Len(search_results) :
                 search_results[j] = Document(returned[j]))
    /\ [][InCollection =>
            /\ IsPrefix(search_results, search_results')
            /\ Len(search_results') <= Len(search_results) + 1
            /\ queries_to_search' = queries_to_search]_vars

\* C15 witness: the third search request failed after two that returned
\* different texts
ThirdSearchFailed ==
    /\ error = "SearchUnavailable"
    /\ Len(search_results) = 2
    /\ search_results[1] # search_results[2]
    /\ Len(queried) = 3

\* C16: the loop sleeps after every search request that returned, the last
\* one included, and after none that failed: k queries collected means k
\* delays, and the first model call of the refine chain starts no sooner
\* than Delay after the last search request completed.
DelayAfterEverySearch ==
    /\ pc \in {"loop", "searching"} => delays = Len(returned)
    /\ pc = "sleeping" => delays = Len(returned) - 1
    /\ error = "SearchUnavailable" =>
         (delays = Len(returned) /\ delays = Len(queried) - 1)
    /\ AfterCollect =>
         /\ delays = Len(queries_to_search)
         /\ delays = Len(returned)
         /\ returned # <<>> => now >= lastDone + Delay
    /\ refineCalls >= 1 => now >= lastDone + Delay

\* C16 witness: the first refine call is in flight after four searches and
\* four delays, exactly Delay after the last search completed
RefineStartsAfterDelay ==
    /\ pc = "refine_call"
    /\ refineCalls = 1
    /\ delays = 4
    /\ Len(queries_to_search) = 4
    /\ now = lastDone + Delay

====
